---- MODULE Spec2Model ----
(***************************************************************************)
(* Model of the Train Web App server (src/index.ts, src/db.ts): the REST   *)
(* handlers for seats and calls over the PostgreSQL tables, and the        *)
(* Socket.IO signaling / chat handlers over the activeSockets map.         *)
(*                                                                         *)
(* Every handler that awaits pool.query is split at the await: the part    *)
(* before it (authMiddleware, destructuring, validation) is one action,    *)
(* the SQL statement together with the code after the await is another.    *)
(* A statement executes atomically in the store, or rejects (the catch     *)
(* branch of the handler).                                                 *)
(***************************************************************************)
EXTENDS Bags, FiniteSets, Integers, Sequences, TLC

(* ------------------------------ bounds --------------------------------- *)
MaxUsers == 2        \* rows of the users table: ids 1..MaxUsers
MaxCars == 1         \* rows of the cars table at the start: ids 1..MaxCars
MaxCarSeq == 2       \* values cars_id_seq may hand out
MaxSeatId == 1       \* seat ids a request may name: 1..MaxSeatId
MaxSeatSeq == 2      \* values seats_id_seq may hand out
MaxSeatNumber == 1   \* seat numbers a request may name
MaxInFlight == 2     \* HTTP requests suspended at their await together
MaxCallId == 1       \* values calls_id_seq may hand out
MaxTime == 1         \* timestamps a request may carry: 1..MaxTime
MaxSockets == 2      \* socket ids the transport may hand out
MaxMsgs == 2         \* values messages_id_seq may hand out
MaxSignals == 2      \* signaling events the relay handles

(* ------------------------------ values --------------------------------- *)
\* SQL NULL in a nullable integer / timestamp column
NULL == -1

Users == 1..MaxUsers
Cars == 1..MaxCars

\* ids a request body may carry: 0 is falsy in JS and is no row;
\* MaxCars+1 is truthy and is no row either
UserIdInputs == 0..MaxUsers
CarIdInputs == 0..(MaxCars + 1)
SeatNumbers == 1..MaxSeatNumber
SeatIds == 1..MaxSeatId
CallIds == 1..MaxCallId
SocketIds == 1..MaxSockets

Tokens == {"valid", "invalid", "missing"}

VARIABLES
    cars,           \* cars table: id -> row
    carSeq,         \* last value handed out by cars_id_seq
    seats,          \* seats table: id -> row
    seatSeq,        \* last value handed out by seats_id_seq
    calls,          \* calls table: id -> row
    callSeq,        \* last value handed out by calls_id_seq
    httpReq,        \* bag of the requests whose pool.query is pending
    lastResp,       \* the HTTP response sent last, with the row its statement found
    conn,           \* per socket id: "new" (not yet connected), "open", "closed"
    activeSockets,  \* the activeSockets map: socket id -> user id
    everRegistered, \* socket ids that have been a key of activeSockets
    lastRegister,   \* per socket id: the userId of its latest 'register' while open
    messages,       \* messages table, in insertion order
    msgSeq,         \* last value handed out by messages_id_seq
    msgPending,     \* bag of 'message' handlers suspended at their INSERT
    inbox,          \* per socket id: the events emitted to it, in order
    lastEmit,       \* the signaling event handled last and the sockets it reached
    signalCount     \* signaling events handled so far

carVars == <<cars, carSeq>>
seatVars == <<seats, seatSeq>>
callVars == <<calls, callSeq>>
httpVars == <<httpReq, lastResp>>
sockVars == <<conn, activeSockets, everRegistered, lastRegister,
             inbox, lastEmit, signalCount>>
msgVars == <<messages, msgSeq, msgPending>>

vars == <<cars, carSeq, seats, seatSeq, calls, callSeq, httpReq, lastResp, conn,
          activeSockets, everRegistered, lastRegister, messages, msgSeq, msgPending,
          inbox, lastEmit, signalCount>>

NoRow == [id |-> NULL]
NoResp == [req |-> [route |-> "none", token |-> "none"], status |-> 0, outcome |-> "none",
           before |-> NoRow, pending |-> EmptyBag]

(* --------------------------- request bodies ---------------------------- *)
EmptyBody == [f \in {} |-> 0]

SeatPostBodies ==
    [car_id : CarIdInputs, seat_number : SeatNumbers]
        \cup [car_id : CarIdInputs, seat_number : SeatNumbers,
              is_occupied : BOOLEAN, user_id : UserIdInputs]
        \cup [seat_number : SeatNumbers]
        \cup [car_id : CarIdInputs]

SeatPutBodies ==
    [is_occupied : BOOLEAN, user_id : UserIdInputs]
        \cup [is_occupied : BOOLEAN]
        \cup [user_id : UserIdInputs]
        \cup {EmptyBody}

Has(body, f) == f \in DOMAIN body

(* ----------------------------- middleware ------------------------------ *)
\* authMiddleware letting a request without Authorization header through
authMiddleware_AcceptMissing(token) ==
    IF token \in {"valid", "missing"} THEN 200 ELSE 401

\* authMiddleware: 401 unless the bearer token verifies
authMiddleware(token) == IF token = "valid" THEN 200 ELSE 401

\* the tokens of the requests that get past authMiddleware
Verified == {t \in Tokens : authMiddleware(t) = 200}

\* res.status(..).json(..) of a handler that returned before its query
Reject(route, token, status) ==
    lastResp' = [req |-> [route |-> route, token |-> token], status |-> status,
                 outcome |-> "rejected", before |-> NoRow,
                 pending |-> httpReq]

\* res.status(..).json(..) after the statement of req executed
Respond(req, status, before) ==
    lastResp' = [req |-> req, status |-> status,
                 outcome |-> "executed", before |-> before,
                 pending |-> httpReq (-) SetToBag({req})]

\* the handler reaches its await: its query joins the pending ones
Suspend(req) ==
    /\ BagCardinality(httpReq) < MaxInFlight
    /\ httpReq' = httpReq (+) SetToBag({req})

\* the query of req settles: req leaves the pending requests
Settle(req) == httpReq' = httpReq (-) SetToBag({req})

Pending == BagToSet(httpReq)

PendingInserts(route) ==
    BagCardinality([r \in {p \in Pending : p.route = route} |-> httpReq[r]])

SeatRoutes == {"POST /api/seats", "PUT /api/seats/:id", "DELETE /api/seats/:id"}
CallRoutes == {"POST /api/calls", "PUT /api/calls/:id", "DELETE /api/calls/:id"}

\* a request to a route behind authMiddleware whose token does not verify
Unauthorized(route, token) ==
    /\ authMiddleware(token) = 401
    /\ Reject(route, token, 401)
    /\ UNCHANGED <<seatVars, httpReq, callVars, sockVars, msgVars, carVars>>

(* -------------------------------- cars --------------------------------- *)
CarRoutes == {"POST /api/cars", "PUT /api/cars/:id", "DELETE /api/cars/:id"}

\* car ids a request may name
CarIds == 1..MaxCarSeq

\* capacity 0 is falsy in JS
CarPostBodies ==
    [name : {"car"}, capacity : {0, 6}]
        \cup [name : {"car"}, capacity : {6}, status : {"maintenance"}]
        \cup [name : {"car"}]

CarPutBodies ==
    [capacity : {6}] \cup [status : {"maintenance"}] \cup {EmptyBody}

\* the queries the car handlers can have pending
CarPostRequests ==
    [token : Verified, route : {"POST /api/cars"}, id : {NULL},
     params : [name : {"car"}, capacity : {6},
               status : {"available", "maintenance"}]]
CarPutRequests ==
    [token : Verified, route : {"PUT /api/cars/:id"}, id : CarIds,
     params : CarPutBodies]
CarDeleteRequests ==
    [token : Verified, route : {"DELETE /api/cars/:id"}, id : CarIds,
     params : {EmptyBody}]
CarRequests == CarPostRequests \cup CarPutRequests \cup CarDeleteRequests

CarRow(id) == IF id \in DOMAIN cars THEN cars[id] ELSE NoRow

\* POST /api/cars up to the await
CarPostRecv(token, body) ==
    /\ authMiddleware(token) = 200
    /\ IF ~Has(body, "name") \/ ~Has(body, "capacity") \/ body.capacity = 0
       THEN Reject("POST /api/cars", token, 400)
            /\ UNCHANGED <<carVars, httpReq, seatVars, callVars, sockVars, msgVars>>
       ELSE
         /\ carSeq + PendingInserts("POST /api/cars") < MaxCarSeq
         /\ Suspend([token |-> token, route |-> "POST /api/cars", id |-> NULL,
                     params |-> [name |-> body.name, capacity |-> body.capacity,
                                 status |-> IF Has(body, "status")
                                            THEN body.status ELSE "available"]])
         /\ UNCHANGED <<carVars, lastResp, seatVars, callVars, sockVars, msgVars>>

\* INSERT INTO cars ... RETURNING *, and the code after the await
CarPostExec(req) ==
    /\ req \in Pending
    /\ req.route = "POST /api/cars"
    /\ LET id == carSeq + 1
           row == [id |-> id, name |-> req.params.name,
                   capacity |-> req.params.capacity,
                   status |-> req.params.status]
       IN  /\ carSeq' = id
           /\ cars' = [c \in DOMAIN cars \cup {id} |->
                          IF c = id THEN row ELSE cars[c]]
           /\ Respond(req, 201, NoRow)
           /\ Settle(req)
    /\ UNCHANGED <<seatVars, callVars, sockVars, msgVars>>

\* PUT /api/cars/:id up to the await
CarPutRecv(token, id, body) ==
    /\ authMiddleware(token) = 200
    /\ Suspend([token |-> token, route |-> "PUT /api/cars/:id", id |-> id,
                params |-> body])
    /\ UNCHANGED <<carVars, lastResp, seatVars, callVars, sockVars, msgVars>>

\* the row UPDATE cars SET name = COALESCE($1, name), capacity =
\* COALESCE($2, capacity), status = COALESCE($3, status) writes
CarUpdateRow(old, body) ==
    [old EXCEPT
        !.name = IF Has(body, "name") THEN body.name ELSE @,
        !.capacity = IF Has(body, "capacity") THEN body.capacity ELSE @,
        !.status = IF Has(body, "status") THEN body.status ELSE @]

\* UPDATE cars ... WHERE id = $4 RETURNING *, and the code after the await
CarPutExec(req) ==
    /\ req \in Pending
    /\ req.route = "PUT /api/cars/:id"
    /\ LET old == CarRow(req.id)
           found == req.id \in DOMAIN cars
       IN  /\ cars' = IF found
                      THEN [cars EXCEPT ![req.id] = CarUpdateRow(old, req.params)]
                      ELSE cars
           /\ Respond(req, IF found THEN 200 ELSE 404, old)
           /\ Settle(req)
    /\ UNCHANGED <<carSeq, seatVars, callVars, sockVars, msgVars>>

\* DELETE /api/cars/:id up to the await
CarDeleteRecv(token, id) ==
    /\ authMiddleware(token) = 200
    /\ Suspend([token |-> token, route |-> "DELETE /api/cars/:id", id |-> id,
                params |-> EmptyBody])
    /\ UNCHANGED <<carVars, lastResp, seatVars, callVars, sockVars, msgVars>>

\* DELETE FROM cars WHERE id = $1 RETURNING *, and the code after the await;
\* seats.car_id is ON DELETE CASCADE
CarDeleteExec(req) ==
    /\ req \in Pending
    /\ req.route = "DELETE /api/cars/:id"
    /\ LET old == CarRow(req.id)
       IN  /\ cars' = [c \in DOMAIN cars \ {req.id} |-> cars[c]]
           /\ seats' = [x \in {y \in DOMAIN seats : seats[y].car_id # req.id} |->
                           seats[x]]
           /\ Respond(req, IF req.id \in DOMAIN cars THEN 200 ELSE 404, old)
           /\ Settle(req)
    /\ UNCHANGED <<carSeq, seatSeq, callVars, sockVars, msgVars>>

(* ------------------------------- seats --------------------------------- *)
\* the queries the seat handlers can have pending
SeatPostRequests ==
    [token : Verified, route : {"POST /api/seats"}, id : {NULL},
     params : [car_id : CarIdInputs \ {0}, seat_number : SeatNumbers,
               is_occupied : BOOLEAN,
               user_id : {NULL} \cup (UserIdInputs \ {0})]]
SeatPutRequests ==
    [token : Verified, route : {"PUT /api/seats/:id"}, id : SeatIds, params : SeatPutBodies]
SeatDeleteRequests ==
    [token : Verified, route : {"DELETE /api/seats/:id"}, id : SeatIds, params : {EmptyBody}]
SeatRequests == SeatPostRequests \cup SeatPutRequests \cup SeatDeleteRequests

SeatRow(id) == IF id \in DOMAIN seats THEN seats[id] ELSE NoRow

\* POST /api/seats up to the await
SeatPostRecv(token, body) ==
    /\ authMiddleware(token) = 200
    /\ IF ~Has(body, "car_id") \/ body.car_id = 0 \/ ~Has(body, "seat_number")
       THEN Reject("POST /api/seats", token, 400)
            /\ UNCHANGED <<seatVars, httpReq, callVars, sockVars, msgVars, carVars>>
       ELSE
         /\ seatSeq + PendingInserts("POST /api/seats") < MaxSeatSeq
         /\ Suspend([token |-> token, route |-> "POST /api/seats", id |-> NULL,
                params |-> [car_id |-> body.car_id,
                            seat_number |-> body.seat_number,
                            is_occupied |-> IF Has(body, "is_occupied")
                                            THEN body.is_occupied ELSE FALSE,
                            user_id |-> IF Has(body, "user_id") /\ body.user_id # 0
                                        THEN body.user_id ELSE NULL]])
         /\ UNCHANGED <<seatVars, lastResp, callVars, sockVars, msgVars, carVars>>

\* the INSERT against a seats table without UNIQUE(car_id, seat_number)
SeatPostExec_NoUnique(req) ==
    /\ req \in Pending
    /\ req.route = "POST /api/seats"
    /\ LET p == req.params
           id == seatSeq + 1
           row == [id |-> id, car_id |-> p.car_id, seat_number |-> p.seat_number,
                   is_occupied |-> p.is_occupied, user_id |-> p.user_id]
           fk == p.car_id \in DOMAIN cars /\ (p.user_id = NULL \/ p.user_id \in Users)
           status == IF ~fk THEN 500 ELSE 201
       IN  /\ seatSeq' = id
           /\ seats' = IF status = 201
                       THEN [s \in DOMAIN seats \cup {id} |->
                                IF s = id THEN row ELSE seats[s]]
                       ELSE seats
           /\ Respond(req, status, NoRow)
           /\ Settle(req)
    /\ UNCHANGED <<callVars, sockVars, msgVars, carVars>>

\* INSERT INTO seats ... RETURNING *, and the code after the await
SeatPostExec(req) ==
    /\ req \in Pending
    /\ req.route = "POST /api/seats"
    /\ LET p == req.params
           id == seatSeq + 1
           row == [id |-> id, car_id |-> p.car_id, seat_number |-> p.seat_number,
                   is_occupied |-> p.is_occupied, user_id |-> p.user_id]
           dup == \E s \in DOMAIN seats :
                      /\ seats[s].car_id = p.car_id
                      /\ seats[s].seat_number = p.seat_number
           fk == p.car_id \in DOMAIN cars /\ (p.user_id = NULL \/ p.user_id \in Users)
           status == IF dup THEN 409 ELSE IF ~fk THEN 500 ELSE 201
       IN  /\ seatSeq' = id    \* nextval is not rolled back
           /\ seats' = IF status = 201
                       THEN [s \in DOMAIN seats \cup {id} |->
                                IF s = id THEN row ELSE seats[s]]
                       ELSE seats
           /\ Respond(req, status, NoRow)
           /\ Settle(req)
    /\ UNCHANGED <<callVars, sockVars, msgVars, carVars>>

\* PUT /api/seats/:id up to the await
SeatPutRecv(token, id, body) ==
    /\ authMiddleware(token) = 200
    /\ Suspend([token |-> token, route |-> "PUT /api/seats/:id", id |-> id,
                params |-> body])
    /\ UNCHANGED <<seatVars, lastResp, callVars, sockVars, msgVars, carVars>>

\* the row written if user_id were under COALESCE like is_occupied
SeatUpdateRow_KeepUser(old, body) ==
    [old EXCEPT
        !.is_occupied = IF Has(body, "is_occupied") THEN body.is_occupied ELSE @,
        !.user_id = IF Has(body, "user_id") THEN body.user_id ELSE @]

\* the row UPDATE seats SET is_occupied = COALESCE($1, is_occupied),
\* user_id = $2 writes
SeatUpdateRow(old, body) ==
    [old EXCEPT
        !.is_occupied = IF Has(body, "is_occupied") THEN body.is_occupied ELSE @,
        !.user_id = IF Has(body, "user_id") THEN body.user_id ELSE NULL]

\* an UPDATE whose row stays written when the statement is answered 500
SeatPutExec_NoRollback(req) ==
    /\ req \in Pending
    /\ req.route = "PUT /api/seats/:id"
    /\ LET old == SeatRow(req.id)
           new == SeatUpdateRow(old, req.params)
           status == IF req.id \notin DOMAIN seats THEN 404
                     ELSE IF new.user_id # NULL /\ new.user_id \notin Users
                     THEN 500 ELSE 200
       IN  /\ seats' = IF status # 404 THEN [seats EXCEPT ![req.id] = new]
                       ELSE seats
           /\ Respond(req, status, old)
           /\ Settle(req)
    /\ UNCHANGED <<seatSeq, callVars, sockVars, msgVars, carVars>>

\* UPDATE seats ... WHERE id = $3 RETURNING *, and the code after the await
SeatPutExec(req) ==
    /\ req \in Pending
    /\ req.route = "PUT /api/seats/:id"
    /\ LET old == SeatRow(req.id)
           new == SeatUpdateRow(old, req.params)
           status == IF req.id \notin DOMAIN seats THEN 404
                     ELSE IF new.user_id # NULL /\ new.user_id \notin Users
                     THEN 500 ELSE 200
       IN  /\ seats' = IF status = 200 THEN [seats EXCEPT ![req.id] = new]
                       ELSE seats
           /\ Respond(req, status, old)
           /\ Settle(req)
    /\ UNCHANGED <<seatSeq, callVars, sockVars, msgVars, carVars>>

\* DELETE /api/seats/:id up to the await
SeatDeleteRecv(token, id) ==
    /\ authMiddleware(token) = 200
    /\ Suspend([token |-> token, route |-> "DELETE /api/seats/:id", id |-> id,
                params |-> EmptyBody])
    /\ UNCHANGED <<seatVars, lastResp, callVars, sockVars, msgVars, carVars>>

\* DELETE FROM seats WHERE id = $1 RETURNING *, and the code after the await
SeatDeleteExec(req) ==
    /\ req \in Pending
    /\ req.route = "DELETE /api/seats/:id"
    /\ LET old == SeatRow(req.id)
           status == IF req.id \notin DOMAIN seats THEN 404 ELSE 200
       IN  /\ seats' = [s \in DOMAIN seats \ {req.id} |-> seats[s]]
           /\ Respond(req, status, old)
           /\ Settle(req)
    /\ UNCHANGED <<seatSeq, callVars, sockVars, msgVars, carVars>>

\* pool.query of a handler rejects (store unreachable): the catch branch
\* answers 500
StoreFail(req) ==
    /\ req \in Pending
    /\ lastResp' = [req |-> req, status |-> 500, outcome |-> "failed",
                    before |-> NoRow, pending |-> httpReq (-) SetToBag({req})]
    /\ Settle(req)
    /\ UNCHANGED <<seatVars, callVars, sockVars, msgVars, carVars>>


(* ------------------------------- calls --------------------------------- *)
CallRow(id) == IF id \in DOMAIN calls THEN calls[id] ELSE NoRow

CallPostBodies ==
    [caller_id : UserIdInputs, receiver_id : UserIdInputs]
        \cup [caller_id : UserIdInputs]

\* any string fits the VARCHAR(50) status column
StatusInputs == {"pending", "active", "ended", "cancelled"}
Timestamps == 1..MaxTime

CallPutBodies ==
    [status : StatusInputs, ended_at : Timestamps]
        \cup [status : StatusInputs]
        \cup [ended_at : Timestamps]
        \cup {EmptyBody}

\* the queries the call handlers can have pending
CallPostRequests ==
    [token : Verified, route : {"POST /api/calls"}, id : {NULL},
     params : [caller_id : UserIdInputs \ {0}, receiver_id : UserIdInputs \ {0}]]
CallPutRequests ==
    [token : Verified, route : {"PUT /api/calls/:id"}, id : CallIds, params : CallPutBodies]
CallDeleteRequests ==
    [token : Verified, route : {"DELETE /api/calls/:id"}, id : CallIds, params : {EmptyBody}]
CallRequests == CallPostRequests \cup CallPutRequests \cup CallDeleteRequests

\* POST /api/calls up to the await
CallPostRecv(token, body) ==
    /\ authMiddleware(token) = 200
    /\ IF body.caller_id = 0 \/ ~Has(body, "receiver_id") \/ body.receiver_id = 0
       THEN Reject("POST /api/calls", token, 400)
            /\ UNCHANGED <<callVars, httpReq, seatVars, sockVars, msgVars, carVars>>
       ELSE
         /\ callSeq + PendingInserts("POST /api/calls") < MaxCallId
         /\ Suspend([token |-> token, route |-> "POST /api/calls", id |-> NULL,
                  params |-> body])
         /\ UNCHANGED <<callVars, lastResp, seatVars, sockVars, msgVars, carVars>>

\* INSERT INTO calls (caller_id, receiver_id, status) ... RETURNING *, and the
\* code after the await; ended_at takes its column default
CallPostExec(req) ==
    /\ req \in Pending
    /\ req.route = "POST /api/calls"
    /\ LET p == req.params
           id == callSeq + 1
           row == [id |-> id, caller_id |-> p.caller_id,
                   receiver_id |-> p.receiver_id,
                   status |-> "pending", ended_at |-> NULL]
           fk == p.caller_id \in Users /\ p.receiver_id \in Users
       IN  /\ callSeq' = id
           /\ calls' = IF fk THEN [c \in DOMAIN calls \cup {id} |->
                                      IF c = id THEN row ELSE calls[c]]
                       ELSE calls
           /\ Respond(req, IF fk THEN 201 ELSE 500, NoRow)
           /\ Settle(req)
    /\ UNCHANGED <<seatVars, sockVars, msgVars, carVars>>

\* PUT /api/calls/:id up to the await
CallPutRecv(token, id, body) ==
    /\ authMiddleware(token) = 200
    /\ Suspend([token |-> token, route |-> "PUT /api/calls/:id", id |-> id,
                params |-> body])
    /\ UNCHANGED <<callVars, lastResp, seatVars, sockVars, msgVars, carVars>>

\* the row UPDATE calls SET status = COALESCE($1, status), ended_at = $2 writes
CallUpdateRow(old, body) ==
    [old EXCEPT
        !.status = IF Has(body, "status") THEN body.status ELSE @,
        !.ended_at = IF Has(body, "ended_at") THEN body.ended_at ELSE NULL]

\* UPDATE calls ... WHERE id = $3 RETURNING *, and the code after the await
CallPutExec(req) ==
    /\ req \in Pending
    /\ req.route = "PUT /api/calls/:id"
    /\ LET old == CallRow(req.id)
           found == req.id \in DOMAIN calls
       IN  /\ calls' = IF found
                       THEN [calls EXCEPT ![req.id] = CallUpdateRow(old, req.params)]
                       ELSE calls
           /\ Respond(req, IF found THEN 200 ELSE 404, old)
           /\ Settle(req)
    /\ UNCHANGED <<callSeq, seatVars, sockVars, msgVars, carVars>>

\* DELETE /api/calls/:id up to the await
CallDeleteRecv(token, id) ==
    /\ authMiddleware(token) = 200
    /\ Suspend([token |-> token, route |-> "DELETE /api/calls/:id", id |-> id,
                params |-> EmptyBody])
    /\ UNCHANGED <<callVars, lastResp, seatVars, sockVars, msgVars, carVars>>

\* DELETE FROM calls WHERE id = $1 RETURNING *, and the code after the await
CallDeleteExec(req) ==
    /\ req \in Pending
    /\ req.route = "DELETE /api/calls/:id"
    /\ LET old == CallRow(req.id)
       IN  /\ calls' = [c \in DOMAIN calls \ {req.id} |-> calls[c]]
           /\ Respond(req, IF req.id \in DOMAIN calls THEN 200 ELSE 404, old)
           /\ Settle(req)
    /\ UNCHANGED <<callSeq, seatVars, sockVars, msgVars, carVars>>

(* ------------------------------ sockets -------------------------------- *)
\* user ids a client may send with 'register': 0 is falsy in JS, 1 is a row
\* of users, MaxUsers+1 is none
RegisterInputs == {0, 1, MaxUsers + 1}
Payloads == {"sdp1", "sdp2"}
Contents == {"m1"}
SignalEvents == {"offer", "answer", "ice-candidate", "call-ended"}

\* what a client may send with a signaling event: the target, the payload
\* and, optionally, the id of a call
SignalData(ev) ==
    IF ev = "call-ended"
    THEN [to : SocketIds] \cup [to : SocketIds, callId : {1}]
    ELSE [to : SocketIds, payload : Payloads]
            \cup [to : SocketIds, payload : Payloads, callId : {1}]

NoEmit == [ev |-> "none", from |-> 0, data |-> EmptyBody, to |-> {}, ok |-> TRUE]

\* the sockets that have connected, closed ones included
Open_EverConnected == {s \in SocketIds : conn[s] # "new"}

\* the sockets the transport holds a connection for
Open == {s \in SocketIds : conn[s] = "open"}

\* io.to(room) that also reaches the socket once named by room after it closed
RoomMembers_Closed(room) == {s \in SocketIds : s = room /\ conn[s] # "new"}

\* io.to(room): every socket sits in the room named by its own id, and the
\* handlers join no other room
RoomMembers(room) == {s \in Open : s = room}

\* an emit to the keys of activeSockets only
IoEmitTargets_Registered == DOMAIN activeSockets

\* io.emit reaches every connected socket
IoEmitTargets == Open

\* an emit that puts the record ahead of those emitted before
Deliver_Front(targets, rec) ==
    inbox' = [s \in SocketIds |->
                 IF s \in targets THEN <<rec>> \o inbox[s] ELSE inbox[s]]

\* .emit(event, record): the record follows those emitted to the socket
\* before
Deliver(targets, rec) ==
    inbox' = [s \in SocketIds |->
                 IF s \in targets THEN Append(inbox[s], rec) ELSE inbox[s]]


\* io.on('connection')
Connect(s) ==
    /\ conn[s] = "new"
    /\ conn' = [conn EXCEPT ![s] = "open"]
    /\ UNCHANGED <<activeSockets, everRegistered, lastRegister, inbox, lastEmit, signalCount,
                   msgVars,
                   seatVars, callVars, httpVars, carVars>>

\* a register handler that keeps the user id the socket registered first
Register_KeepFirst(s, userId) ==
    /\ conn[s] = "open"
    /\ activeSockets' = [k \in DOMAIN activeSockets \cup {s} |->
                            IF k \in DOMAIN activeSockets THEN activeSockets[k]
                            ELSE userId]
    /\ everRegistered' = everRegistered \cup {s}
    /\ lastRegister' = [lastRegister EXCEPT ![s] = userId]
    /\ UNCHANGED <<conn, inbox, lastEmit, signalCount, msgVars,
                   seatVars, callVars, httpVars, carVars>>

\* socket.on('register')
Register(s, userId) ==
    /\ conn[s] = "open"
    /\ activeSockets' = [k \in DOMAIN activeSockets \cup {s} |->
                            IF k = s THEN userId ELSE activeSockets[k]]
    /\ everRegistered' = everRegistered \cup {s}
    /\ lastRegister' = [lastRegister EXCEPT ![s] = userId]
    /\ UNCHANGED <<conn, inbox, lastEmit, signalCount, msgVars,
                   seatVars, callVars, httpVars, carVars>>

\* a record tagged with the target's id in place of the sender's
SignalRecord_FromTarget(ev, from, data) ==
    LET callId == IF Has(data, "callId") THEN [callId |-> data.callId]
                  ELSE EmptyBody
    IN  CASE ev \in {"offer", "answer"} ->
                [ev |-> ev, from |-> data.to, payload |-> data.payload] @@ callId
          [] ev = "ice-candidate" ->
                [ev |-> ev, from |-> data.to, payload |-> data.payload]
          [] ev = "call-ended" ->
                [ev |-> ev, from |-> data.to] @@ callId

\* the object a signaling handler emits
SignalRecord(ev, from, data) ==
    LET callId == IF Has(data, "callId") THEN [callId |-> data.callId]
                  ELSE EmptyBody
    IN  CASE ev \in {"offer", "answer"} ->
                [ev |-> ev, from |-> from, payload |-> data.payload] @@ callId
          [] ev = "ice-candidate" ->
                [ev |-> ev, from |-> from, payload |-> data.payload]
          [] ev = "call-ended" ->
                [ev |-> ev, from |-> from] @@ callId

\* socket.on('offer' | 'answer' | 'ice-candidate' | 'call-ended')
Signal(ev, s, data) ==
    /\ conn[s] = "open"
    /\ signalCount < MaxSignals
    /\ signalCount' = signalCount + 1
    /\ Deliver(RoomMembers(data.to), SignalRecord(ev, s, data))
    /\ lastEmit' = [ev |-> ev, from |-> s, data |-> data,
                    to |-> RoomMembers(data.to), ok |-> TRUE]
    /\ UNCHANGED <<conn, activeSockets, everRegistered, lastRegister, msgVars,
                   seatVars, callVars, httpVars, carVars>>

\* map.get(s): the user id the map holds for s, or NULL for undefined
Resolve(map, s) == IF s \in DOMAIN map THEN map[s] ELSE NULL

\* userId || null
OrNull(userId) == IF userId = NULL \/ userId = 0 THEN NULL ELSE userId

\* the 'message' handlers that can be suspended at their INSERT: the message
\* and the handler's local userId
MessageInserts ==
    [content : Contents, userId : {NULL} \cup RegisterInputs]

\* socket.on('message') up to the await
Message(s, msg) ==
    /\ conn[s] = "open"
    /\ msgSeq + BagCardinality(msgPending) < MaxMsgs
    /\ LET userId == Resolve(activeSockets, s)
       IN  msgPending' = msgPending (+)
               SetToBag({[content |-> msg, userId |-> userId]})
    /\ UNCHANGED <<messages, msgSeq, sockVars, seatVars, callVars, httpVars, carVars>>

\* the handler with io.emit moved out of the try block: the record is emitted
\* whether or not the INSERT stored it
MessageInsertExec_EmitAlways(p) ==
    /\ p \in BagToSet(msgPending)
    /\ LET row == [id |-> msgSeq + 1, content |-> p.content,
                   user_id |-> OrNull(p.userId)]
           fk == row.user_id = NULL \/ row.user_id \in Users
       IN  /\ msgSeq' = msgSeq + 1
           /\ messages' = IF fk THEN Append(messages, row) ELSE messages
           /\ Deliver(IoEmitTargets, [ev |-> "message", row |-> row])
    /\ msgPending' = msgPending (-) SetToBag({p})
    /\ UNCHANGED <<conn, activeSockets, everRegistered, lastRegister, lastEmit, signalCount,
                   seatVars, callVars, httpVars, carVars>>

\* INSERT INTO messages ... RETURNING * and the code after the await: the row
\* is stored and emitted, or the statement violates messages.user_id's
\* foreign key and the catch branch logs
MessageInsertExec(p) ==
    /\ p \in BagToSet(msgPending)
    /\ LET row == [id |-> msgSeq + 1, content |-> p.content,
                   user_id |-> OrNull(p.userId)]
           fk == row.user_id = NULL \/ row.user_id \in Users
       IN  /\ msgSeq' = msgSeq + 1
           /\ messages' = IF fk THEN Append(messages, row) ELSE messages
           /\ Deliver(IF fk THEN IoEmitTargets ELSE {},
                      [ev |-> "message", row |-> row])
    /\ msgPending' = msgPending (-) SetToBag({p})
    /\ UNCHANGED <<conn, activeSockets, everRegistered, lastRegister, lastEmit, signalCount,
                   seatVars, callVars, httpVars, carVars>>

\* pool.query of the 'message' handler rejects (store unreachable): the catch
\* branch logs and nothing is emitted
MessageInsertFail(p) ==
    /\ p \in BagToSet(msgPending)
    /\ msgPending' = msgPending (-) SetToBag({p})
    /\ UNCHANGED <<messages, msgSeq, sockVars, seatVars, callVars, httpVars, carVars>>

\* a disconnect handler that leaves the socket's entry in the map
Disconnect_KeepEntry(s) ==
    /\ conn[s] = "open"
    /\ conn' = [conn EXCEPT ![s] = "closed"]
    /\ lastRegister' = [lastRegister EXCEPT ![s] = NULL]
    /\ UNCHANGED <<activeSockets, everRegistered, inbox, lastEmit, signalCount,
                   msgVars, seatVars, callVars, httpVars, carVars>>

\* socket.on('disconnect')
Disconnect(s) ==
    /\ conn[s] = "open"
    /\ conn' = [conn EXCEPT ![s] = "closed"]
    /\ activeSockets' = [k \in DOMAIN activeSockets \ {s} |-> activeSockets[k]]
    /\ lastRegister' = [lastRegister EXCEPT ![s] = NULL]
    /\ UNCHANGED <<everRegistered, inbox, lastEmit, signalCount, msgVars,
                   seatVars, callVars, httpVars, carVars>>

(* --------------------------- specifications ---------------------------- *)
\* the state once startServer has run, with the users Users and the cars Cars
\* stored: no seat, no call, no message, no request, no socket
Init ==
    /\ cars = [c \in Cars |-> [id |-> c, name |-> "car", capacity |-> 4,
                                status |-> "available"]]
    /\ carSeq = MaxCars
    /\ seats = [s \in {} |-> NoRow]
    /\ seatSeq = 0
    /\ calls = [c \in {} |-> NoRow]
    /\ callSeq = 0
    /\ httpReq = EmptyBag
    /\ lastResp = NoResp
    /\ conn = [s \in SocketIds |-> "new"]
    /\ activeSockets = [s \in {} |-> 0]
    /\ everRegistered = {}
    /\ lastRegister = [s \in SocketIds |-> NULL]
    /\ messages = <<>>
    /\ msgSeq = 0
    /\ msgPending = EmptyBag
    /\ inbox = [s \in SocketIds |-> <<>>]
    /\ lastEmit = NoEmit
    /\ signalCount = 0

\* the seat routes
SeatNext ==
    \/ \E rt \in SeatRoutes, t \in Tokens : Unauthorized(rt, t)
    \/ \E t \in Tokens, b \in SeatPostBodies : SeatPostRecv(t, b)
    \/ \E r \in SeatPostRequests : SeatPostExec(r)
    \/ \E t \in Tokens, id \in SeatIds, b \in SeatPutBodies : SeatPutRecv(t, id, b)
    \/ \E r \in SeatPutRequests : SeatPutExec(r)
    \/ \E t \in Tokens, id \in SeatIds : SeatDeleteRecv(t, id)
    \/ \E r \in SeatDeleteRequests : SeatDeleteExec(r)
    \/ \E r \in SeatRequests : StoreFail(r)

SeatSpec == Init /\ [][SeatNext]_vars

\* creation and deletion of seats by authenticated clients
SeatCreateNext ==
    \/ \E b \in [car_id : CarIdInputs, seat_number : SeatNumbers] :
           SeatPostRecv("valid", b)
    \/ \E r \in SeatPostRequests : SeatPostExec(r)
    \/ \E id \in SeatIds : SeatDeleteRecv("valid", id)
    \/ \E r \in SeatDeleteRequests : SeatDeleteExec(r)
    \/ \E r \in SeatPostRequests \cup SeatDeleteRequests : StoreFail(r)

SeatCreateSpec == Init /\ [][SeatCreateNext]_vars

\* the bodies of a claim by a user and of a release
ClaimBodies == [is_occupied : {TRUE}, user_id : Users]
ReleaseBodies == {[is_occupied |-> FALSE]}

\* one seat created free, then claimed and released by authenticated clients
SeatClaimNext ==
    \/ SeatPostRecv("valid", [car_id |-> 1, seat_number |-> 1])
    \/ \E r \in SeatPostRequests : SeatPostExec(r)
    \/ \E id \in SeatIds, b \in ClaimBodies \cup ReleaseBodies :
           SeatPutRecv("valid", id, b)
    \/ \E r \in SeatPutRequests : SeatPutExec(r)
    \/ \E r \in SeatPostRequests \cup SeatPutRequests : StoreFail(r)

SeatClaimSpec == Init /\ [][SeatClaimNext]_vars

\* the call routes
CallNext ==
    \/ \E rt \in CallRoutes, t \in Tokens : Unauthorized(rt, t)
    \/ \E t \in Tokens, b \in CallPostBodies : CallPostRecv(t, b)
    \/ \E r \in CallPostRequests : CallPostExec(r)
    \/ \E t \in Tokens, id \in CallIds, b \in CallPutBodies : CallPutRecv(t, id, b)
    \/ \E r \in CallPutRequests : CallPutExec(r)
    \/ \E t \in Tokens, id \in CallIds : CallDeleteRecv(t, id)
    \/ \E r \in CallDeleteRequests : CallDeleteExec(r)
    \/ \E r \in CallRequests : StoreFail(r)

CallSpec == Init /\ [][CallNext]_vars

\* the times at which the two peers of a call end it
EndTimes == 1..(MaxTime + 1)

\* the updates by which a peer ends a call
CallEndRequests ==
    [token : Verified, route : {"PUT /api/calls/:id"}, id : CallIds,
     params : [status : {"ended"}, ended_at : EndTimes]]

\* calls created and then ended by their peers
CallEndNext ==
    \/ \E b \in [caller_id : Users, receiver_id : Users] :
           CallPostRecv("valid", b)
    \/ \E r \in CallPostRequests : CallPostExec(r)
    \/ \E id \in CallIds, t \in EndTimes :
           CallPutRecv("valid", id, [status |-> "ended", ended_at |-> t])
    \/ \E r \in CallEndRequests : CallPutExec(r)
    \/ \E r \in CallPostRequests \cup CallEndRequests : StoreFail(r)

CallEndSpec == Init /\ [][CallEndNext]_vars

\* a call from its creation through the signaling events that name it
LifecycleNext ==
    \/ \E t \in Tokens, b \in CallPostBodies : CallPostRecv(t, b)
    \/ \E r \in CallPostRequests : CallPostExec(r)
    \/ \E r \in CallPostRequests : StoreFail(r)
    \/ \E s \in SocketIds : Connect(s)
    \/ \E s \in SocketIds, u \in Users : Register(s, u)
    \/ \E ev \in {"answer", "call-ended"}, s \in SocketIds :
           \E d \in [to : SocketIds, payload : {"sdp1"}, callId : CallIds] :
               Signal(ev, s, d)
    \/ \E s \in SocketIds : Disconnect(s)

LifecycleSpec == Init /\ [][LifecycleNext]_vars

\* the signaling relay: socket 1 signals to the other sockets, of which
\* socket 2 registers or not
SignalNext ==
    \/ \E s \in SocketIds : Connect(s)
    \/ Register(2, 1)
    \/ \E ev \in SignalEvents :
           \E d \in {x \in SignalData(ev) : x.to # 1} : Signal(ev, 1, d)
    \/ \E s \in SocketIds : Disconnect(s)

SignalSpec == Init /\ [][SignalNext]_vars

\* the chat relay
ChatNext ==
    \/ \E s \in SocketIds : Connect(s)
    \/ \E s \in SocketIds, u \in RegisterInputs : Register(s, u)
    \/ \E s \in SocketIds, m \in Contents : Message(s, m)
    \/ \E p \in MessageInserts : MessageInsertExec(p)
    \/ \E p \in MessageInserts : MessageInsertFail(p)
    \/ \E s \in SocketIds : Disconnect(s)

ChatSpec == Init /\ [][ChatNext]_vars

\* the messages one connection sends, in the order it sends them
Sends == <<"m1", "m2">>

\* the 'message' handlers of that connection that can be suspended
OrderedInserts == [content : {Sends[1], Sends[2]}, userId : {NULL, 1}]

\* the handler of msg has run up to its await: its INSERT is pending or done
Received(msg) ==
    \/ \E p \in BagToSet(msgPending) : p.content = msg
    \/ \E i \in 1..Len(messages) : messages[i].content = msg

\* socket 1 sends Sends[1] and then Sends[2], each once, with sockets
\* connecting, registering and closing around them; both INSERTs are executed
OrderNext ==
    \/ \E s \in SocketIds : Connect(s)
    \/ \E s \in SocketIds : Register(s, 1)
    \/ ~Received(Sends[1]) /\ ~Received(Sends[2]) /\ Message(1, Sends[1])
    \/ Received(Sends[1]) /\ ~Received(Sends[2]) /\ Message(1, Sends[2])
    \/ \E p \in OrderedInserts : MessageInsertExec(p)
    \/ \E s \in SocketIds : Disconnect(s)

OrderSpec == Init /\ [][OrderNext]_vars

\* what socket 1 signals to the other sockets: offers
CloseSignals ==
    {<<"offer", d>> : d \in {x \in [to : SocketIds, payload : {"sdp1"}] : x.to # 1}}

\* sockets close while socket 1, registered or not, signals to them and while
\* its chat messages wait for their INSERT
CloseNext ==
    \/ \E s \in SocketIds : Connect(s)
    \/ Register(1, 1)
    \/ \E e \in CloseSignals : Signal(e[1], 1, e[2])
    \/ \E m \in Contents : Message(1, m)
    \/ \E p \in MessageInserts : MessageInsertExec(p)
    \/ \E s \in SocketIds : Disconnect(s)

CloseSpec == Init /\ [][CloseNext]_vars

\* every socket connects, registers as user 1 and closes, while socket 1 also
\* registers with 0 and sends offers to socket 2 and chat messages
RegistryNext ==
    \/ \E s \in SocketIds : Connect(s)
    \/ \E s \in SocketIds : Register(s, 1)
    \/ Register(1, 0)
    \/ Signal("offer", 1, [to |-> 2, payload |-> "sdp1"])
    \/ \E m \in Contents : Message(1, m)
    \/ \E p \in MessageInserts : MessageInsertExec(p)
    \/ \E s \in SocketIds : Disconnect(s)

RegistrySpec == Init /\ [][RegistryNext]_vars

\* no query of an earlier request is waiting for the store
Idle == httpReq = EmptyBag

\* requests with and without a credential, one request per route; a request
\* whose credential verifies arrives when the store is idle
AuthNext ==
    \/ \E rt \in CarRoutes \cup SeatRoutes \cup CallRoutes, t \in Tokens :
           Unauthorized(rt, t)
    \/ \E t \in Tokens : Idle /\ CarPostRecv(t, [name |-> "car", capacity |-> 6])
    \/ \E r \in CarPostRequests : CarPostExec(r)
    \/ \E t \in Tokens : Idle /\ CarPutRecv(t, 1, EmptyBody)
    \/ \E r \in CarPutRequests : CarPutExec(r)
    \/ \E t \in Tokens : Idle /\ CarDeleteRecv(t, 1)
    \/ \E r \in CarDeleteRequests : CarDeleteExec(r)
    \/ \E t \in Tokens :
           Idle /\ SeatPostRecv(t, [car_id |-> 1, seat_number |-> 1])
    \/ \E r \in SeatPostRequests : SeatPostExec(r)
    \/ \E t \in Tokens :
           Idle /\ SeatPutRecv(t, 1, [is_occupied |-> TRUE, user_id |-> 1])
    \/ \E r \in SeatPutRequests : SeatPutExec(r)
    \/ \E t \in Tokens : Idle /\ SeatDeleteRecv(t, 1)
    \/ \E r \in SeatDeleteRequests : SeatDeleteExec(r)
    \/ \E t \in Tokens :
           Idle /\ CallPostRecv(t, [caller_id |-> 1, receiver_id |-> 2])
    \/ \E r \in CallPostRequests : CallPostExec(r)
    \/ \E t \in Tokens : Idle /\ CallPutRecv(t, 1, [status |-> "active"])
    \/ \E r \in CallPutRequests : CallPutExec(r)
    \/ \E t \in Tokens : Idle /\ CallDeleteRecv(t, 1)
    \/ \E r \in CallDeleteRequests : CallDeleteExec(r)

AuthSpec == Init /\ [][AuthNext]_vars

\* writes that can fail: one seat, one call and the chat of one socket
FailureNext ==
    \/ SeatPostRecv("valid", [car_id |-> 1, seat_number |-> 1])
    \/ \E r \in SeatPostRequests : SeatPostExec(r)
    \/ SeatPutRecv("valid", 1, [is_occupied |-> TRUE, user_id |-> 0])
    \/ \E r \in SeatPutRequests : SeatPutExec(r)
    \/ CallPostRecv("valid", [caller_id |-> 1, receiver_id |-> 2])
    \/ \E r \in CallPostRequests : CallPostExec(r)
    \/ CallPutRecv("valid", 1, [status |-> "ended", ended_at |-> 1])
    \/ \E r \in CallPutRequests : CallPutExec(r)
    \/ \E r \in SeatRequests \cup CallRequests : StoreFail(r)
    \/ Connect(1)
    \/ Register(1, 1)
    \/ \E m \in Contents : Message(1, m)
    \/ \E p \in MessageInserts : MessageInsertExec(p)
    \/ \E p \in MessageInserts : MessageInsertFail(p)

FailureSpec == Init /\ [][FailureNext]_vars

\* every handler of the server
Next == SeatNext \/ CallNext \/ SignalNext \/ ChatNext

Spec == Init /\ [][Next]_vars

(* ------------------------------ seat claims ---------------------------- *)
\* the seat update with is_occupied = true and user_id = an existing user
IsClaim(req) ==
    /\ req.route = "PUT /api/seats/:id"
    /\ Has(req.params, "is_occupied") /\ req.params.is_occupied
    /\ Has(req.params, "user_id") /\ req.params.user_id \in Users

\* the last response answers a claim whose UPDATE found the seat
ClaimAnswered ==
    /\ lastResp.outcome = "executed"
    /\ IsClaim(lastResp.req)
    /\ lastResp.before # NoRow

\* C1: a claim of a seat occupied by another user is rejected with Conflict
\* and leaves the occupant; a claim by the occupant succeeds and changes
\* nothing; a claim of an unoccupied seat succeeds and makes the claimant the
\* occupant.
C1_ClaimExclusive ==
    ClaimAnswered =>
        LET b == lastResp.before
            a == SeatRow(lastResp.req.id)
            u == lastResp.req.params.user_id
        IN  /\ (b.is_occupied /\ b.user_id \in Users \ {u})
                   => (lastResp.status = 409 /\ a = b)
            /\ (b.is_occupied /\ b.user_id = u)
                   => (lastResp.status = 200 /\ a = b)
            /\ ~b.is_occupied
                   => (lastResp.status = 200 /\ a.is_occupied /\ a.user_id = u)

\* C2: when two claims of the same unoccupied seat by different users are in
\* flight together, exactly one is answered with success and the other with
\* Conflict, and the seat's occupant is the user whose claim succeeded.  Here
\* the first claim has just been answered while the second was pending, and
\* this step answers the second.
C2_ConcurrentClaims ==
    [][(/\ ClaimAnswered
        /\ ~lastResp.before.is_occupied
        /\ lastResp'.outcome = "executed"
        /\ IsClaim(lastResp'.req)
        /\ lastResp'.req \in BagToSet(lastResp.pending)
        /\ httpReq' = httpReq (-) SetToBag({lastResp'.req})
        /\ lastResp'.req.id = lastResp.req.id
        /\ lastResp'.req.params.user_id # lastResp.req.params.user_id)
       => LET first == lastResp.req.params.user_id
              second == lastResp'.req.params.user_id
              winner == IF lastResp.status = 200 THEN first ELSE second
          IN  /\ {lastResp.status, lastResp'.status} = {200, 409}
              /\ seats'[lastResp.req.id].user_id = winner]_vars

\* this step executes the statement of a pending request to route
Executes(route) ==
    /\ lastResp'.outcome = "executed"
    /\ lastResp'.req.route = route
    /\ lastResp'.req \in Pending
    /\ httpReq' = httpReq (-) SetToBag({lastResp'.req})

SeatKey(row) == <<row.car_id, row.seat_number>>

\* C12: no two stored seats share (car_id, seat_number), and the creation of
\* a seat whose pair is already stored is answered 409, not 500, and leaves
\* the seats as they were; no other creation is answered 409.
C12_UniqueSeatKey ==
    [][/\ \A s, t \in DOMAIN seats' :
              s # t => SeatKey(seats'[s]) # SeatKey(seats'[t])
       /\ Executes("POST /api/seats") =>
              LET dup == \E s \in DOMAIN seats :
                             SeatKey(seats[s]) = SeatKey(lastResp'.req.params)
              IN  /\ dup => (lastResp'.status = 409 /\ seats' = seats)
                  /\ ~dup => lastResp'.status \in {201, 500}]_vars

\* the creation answered last was refused with 409 because of a stored seat
\* with its pair, after an earlier creation was answered otherwise
C12_Witness ==
    /\ lastResp.outcome = "executed"
    /\ lastResp.req.route = "POST /api/seats"
    /\ lastResp.status = 409
    /\ seatSeq = 2
    /\ \E s \in DOMAIN seats : SeatKey(seats[s]) = SeatKey(lastResp.req.params)

\* C13: every stored seat whose user_id is non-null has is_occupied = true.
C13_OccupantImpliesOccupied ==
    \A s \in DOMAIN seats : seats[s].user_id # NULL => seats[s].is_occupied

\* the seat update with is_occupied = false and no user_id
IsRelease(req) ==
    /\ req.route = "PUT /api/seats/:id"
    /\ Has(req.params, "is_occupied") /\ ~req.params.is_occupied
    /\ ~Has(req.params, "user_id")

\* C14: a release of a stored seat is answered with success and leaves the
\* seat unoccupied with no user, whoever occupied it; a claim by a user of a
\* seat in that state is answered with success and makes the claimant the
\* occupant.
C14_ReleaseThenClaim ==
    [][(Executes("PUT /api/seats/:id") /\ lastResp'.req.id \in DOMAIN seats) =>
          LET req == lastResp'.req
              old == seats[req.id]
              new == seats'[req.id]
          IN  /\ IsRelease(req) =>
                     /\ lastResp'.status = 200
                     /\ ~new.is_occupied /\ new.user_id = NULL
              /\ (IsClaim(req) /\ ~old.is_occupied /\ old.user_id = NULL) =>
                     /\ lastResp'.status = 200
                     /\ new.is_occupied /\ new.user_id = req.params.user_id]_vars

\* a seat occupied by one user has just been released and is free, while
\* the claim of another user for it is pending
C14_Witness ==
    /\ lastResp.outcome = "executed" /\ IsRelease(lastResp.req)
    /\ lastResp.status = 200
    /\ lastResp.before.is_occupied /\ lastResp.before.user_id \in Users
    /\ ~SeatRow(lastResp.req.id).is_occupied
    /\ SeatRow(lastResp.req.id).user_id = NULL
    /\ \E r \in Pending :
           /\ IsClaim(r) /\ r.id = lastResp.req.id
           /\ r.params.user_id # lastResp.before.user_id

(* ------------------------------ call claims ---------------------------- *)
\* C3: every stored call has ended_at non-null exactly when its status is
\* ended.
C3_EndedAtIffEnded ==
    \A c \in DOMAIN calls :
        (calls[c].ended_at # NULL) <=> (calls[c].status = "ended")

LegalTransitions ==
    {<<"pending", "active">>, <<"pending", "ended">>, <<"active", "ended">>}

\* C4: a stored call starts in one of pending, active, ended, and every
\* change of its status is pending->active, pending->ended or active->ended.
C4_LegalTransitions ==
    [][\A c \in DOMAIN calls' :
           IF c \in DOMAIN calls
           THEN calls'[c].status # calls[c].status
                    => <<calls[c].status, calls'[c].status>> \in LegalTransitions
           ELSE calls'[c].status \in {"pending", "active", "ended"}]_vars

\* C5: an update of a call that is already ended is answered without error
\* and leaves its status and its ended_at as they were.
C5_EndedIsTerminal ==
    (/\ lastResp.outcome = "executed"
     /\ lastResp.req.route = "PUT /api/calls/:id"
     /\ lastResp.before # NoRow
     /\ lastResp.before.status = "ended")
    => /\ lastResp.status = 200
       /\ CallRow(lastResp.req.id) = lastResp.before

\* C16: when two updates that end the same call are in flight together, the
\* one executed second finds the call ended and writes nothing: the call
\* stays ended with the ended_at of the update executed first.  Here the
\* first update has just been answered while the second was pending, and
\* this step executes the second.
C16_ConcurrentEnd ==
    [][(/\ lastResp.outcome = "executed"
        /\ lastResp.req \in CallEndRequests
        /\ lastResp.before # NoRow
        /\ lastResp.before.status # "ended"
        /\ Executes("PUT /api/calls/:id")
        /\ lastResp'.req \in CallEndRequests
        /\ lastResp'.req \in BagToSet(lastResp.pending)
        /\ lastResp'.req.id = lastResp.req.id)
       => /\ calls' = calls
          /\ CallRow(lastResp.req.id).status = "ended"
          /\ CallRow(lastResp.req.id).ended_at = lastResp.req.params.ended_at]_vars

\* the signaling event this step handles names the stored call c and comes
\* from a socket registered with one of the users in who
SignalForCall(ev, c, who) ==
    /\ signalCount' = signalCount + 1
    /\ lastEmit'.ev = ev
    /\ Has(lastEmit'.data, "callId") /\ lastEmit'.data.callId = c
    /\ lastEmit'.from \in DOMAIN activeSockets
    /\ activeSockets[lastEmit'.from] \in who

\* C6: a call is created pending; the receiver's answer for it makes its
\* stored status active; a call-ended for it from either party makes its
\* stored status ended with ended_at set.
C6_LifecycleBySignaling ==
    [][/\ \A c \in DOMAIN calls' \ DOMAIN calls : calls'[c].status = "pending"
       /\ \A c \in DOMAIN calls :
            /\ SignalForCall("answer", c, {calls[c].receiver_id})
                   => calls'[c].status = "active"
            /\ SignalForCall("call-ended", c,
                             {calls[c].caller_id, calls[c].receiver_id})
                   => (calls'[c].status = "ended" /\ calls'[c].ended_at # NULL)]_vars

(* ------------------------------ chat claims ---------------------------- *)
MessagesIn(box) == SelectSeq(box, LAMBDA e : e.ev = "message")

Stored(row) == \E j \in 1..Len(messages) : messages[j] = row

\* C7: every message record a connection has received is a row of the
\* messages table with the same id: nothing is broadcast before its insert
\* succeeded, and a message whose insert failed is never broadcast.
C7_BroadcastAfterPersist ==
    \A s \in SocketIds :
        \A i \in 1..Len(inbox[s]) :
            inbox[s][i].ev = "message" => Stored(inbox[s][i].row)

\* an insert has failed, and a connection holds a broadcast record
C7_Witness ==
    /\ msgSeq > Len(messages)
    /\ \E s \in SocketIds : Len(MessagesIn(inbox[s])) > 0

\* this step stores a message and broadcasts it
Broadcasts == Len(messages') = Len(messages) + 1

\* the sockets whose inbox this step appends rec to
Receivers(rec) == {s \in SocketIds : inbox'[s] = Append(inbox[s], rec)}

\* C8 as claimed: the connections that receive a chat broadcast are exactly
\* the connections registered at that moment.
C8_OnlyRegistered ==
    [][Broadcasts =>
        \A s \in SocketIds :
            (inbox'[s] # inbox[s]) <=> (s \in DOMAIN activeSockets)]_vars

\* C8 as amended: the connections that receive a chat broadcast are exactly
\* the connections open at that moment, registered or not; so every
\* registered connection receives the stored record.
C8_AllOpen ==
    [][Broadcasts =>
        LET rec == [ev |-> "message", row |-> messages'[Len(messages')]]
        IN  /\ Receivers(rec) = {s \in SocketIds : conn[s] = "open"}
            /\ \A s \in SocketIds \ Receivers(rec) : inbox'[s] = inbox[s]
            /\ DOMAIN activeSockets \subseteq Receivers(rec)]_vars

\* the last broadcast reached an open connection that never registered and
\* a registered one
C8_Witness ==
    \E s \in SocketIds \ everRegistered, r \in DOMAIN activeSockets :
        /\ Len(MessagesIn(inbox[s])) > 0
        /\ MessagesIn(inbox[s]) = MessagesIn(inbox[r])

(* ---------------------------- signaling claims ------------------------- *)
\* this step handles the signaling event ev
Handles(ev) == signalCount' = signalCount + 1 /\ lastEmit'.ev = ev

\* C9 as claimed: an offer addressed to an id that never registered is
\* delivered to no connection, open or not.
C9_NeverRegisteredNoDelivery ==
    [][(Handles("offer") /\ lastEmit'.data.to \notin everRegistered)
           => inbox' = inbox]_vars

\* C9 as amended: an offer addressed to an id with no open connection is
\* delivered to no connection and nothing is sent back to the sender; an
\* offer addressed to an open connection is delivered to it, registered or
\* not.
C9_NotOpenNoDelivery ==
    [][Handles("offer") =>
        LET to == lastEmit'.data.to
        IN  IF conn[to] = "open"
            THEN /\ Len(inbox'[to]) = Len(inbox[to]) + 1
                 /\ inbox'[to][Len(inbox'[to])].ev = "offer"
                 /\ \A s \in SocketIds \ {to} : inbox'[s] = inbox[s]
            ELSE inbox' = inbox]_vars

\* an offer to an id that never registered and has no open connection was
\* handled while its sender stayed open, and reached nobody
C9_Witness ==
    /\ lastEmit.ev = "offer"
    /\ lastEmit.data.to \notin everRegistered
    /\ conn[lastEmit.data.to] = "closed"
    /\ conn[lastEmit.from] = "open"
    /\ \A s \in SocketIds : inbox[s] = <<>>

\* the fields of the emitted record rec are those S = from supplied in data
CarriesSupplied(rec, from, data) ==
    /\ rec.from = from
    /\ Has(data, "payload") => (Has(rec, "payload") /\ rec.payload = data.payload)
    /\ Has(data, "callId") => (Has(rec, "callId") /\ rec.callId = data.callId)

\* C10 as claimed: a signaling event from S with target T reaches T and no
\* other connection, tagged from = S, with the payload and the callId S
\* supplied.
C10_RelayedUnmodified ==
    [][\A ev \in SignalEvents :
        Handles(ev) =>
            LET d == lastEmit'.data
            IN  /\ \A s \in SocketIds \ {d.to} : inbox'[s] = inbox[s]
                /\ conn[d.to] = "open" =>
                       /\ Len(inbox'[d.to]) = Len(inbox[d.to]) + 1
                       /\ CarriesSupplied(inbox'[d.to][Len(inbox'[d.to])],
                                          lastEmit'.from, d)]_vars

\* the record the relay is to emit for ev: from and, per event, the payload
\* and the callId
Relayed(ev, from, data) ==
    [f \in {"ev", "from"}
           \cup (IF ev # "call-ended" THEN {"payload"} ELSE {})
           \cup (IF ev # "ice-candidate" /\ Has(data, "callId")
                 THEN {"callId"} ELSE {}) |->
        CASE f = "ev" -> ev
          [] f = "from" -> from
          [] f = "payload" -> data.payload
          [] f = "callId" -> data.callId]

\* C10 as amended: a signaling event from S with target T reaches T when T
\* is open and no connection otherwise, tagged from = S; offer, answer and
\* ice-candidate carry the payload supplied; offer, answer and call-ended
\* carry the callId supplied, if any; ice-candidate carries no callId.
C10_RelayedPerEvent ==
    [][\A ev \in SignalEvents :
        Handles(ev) =>
            LET d == lastEmit'.data
                rec == Relayed(ev, lastEmit'.from, d)
            IN  /\ \A s \in SocketIds \ {d.to} : inbox'[s] = inbox[s]
                /\ inbox'[d.to] = IF conn[d.to] = "open"
                                  THEN Append(inbox[d.to], rec)
                                  ELSE inbox[d.to]]_vars

\* an ice-candidate sent with a callId reached its target without it
C10_Witness ==
    /\ lastEmit.ev = "ice-candidate"
    /\ Has(lastEmit.data, "callId")
    /\ lastEmit.from # lastEmit.data.to
    /\ \E t \in lastEmit.to :
           LET rec == inbox[t][Len(inbox[t])]
           IN  rec.ev = "ice-candidate" /\ rec.from = lastEmit.from
               /\ ~Has(rec, "callId")

\* C17: every signaling event is delivered behind the events the relay
\* handled before it: what a connection has received stays, in its order, the
\* head of what it receives, so an offer, an answer and an ice-candidate sent
\* in that order by one sender are observed in that order.
C17_ArrivalOrder ==
    [][\A t \in SocketIds :
          /\ Len(inbox'[t]) >= Len(inbox[t])
          /\ SubSeq(inbox'[t], 1, Len(inbox[t])) = inbox[t]
          /\ \A ev \in SignalEvents :
                 (Handles(ev) /\ conn[t] = "open" /\ lastEmit'.data.to = t)
                     => /\ Len(inbox'[t]) = Len(inbox[t]) + 1
                        /\ inbox'[t][Len(inbox'[t])].ev = ev]_vars

\* a connection holds an offer and then an answer of the same sender
C17_Witness ==
    \E t \in SocketIds :
        /\ Len(inbox[t]) >= 2
        /\ inbox[t][1].ev = "offer" /\ inbox[t][2].ev = "answer"
        /\ inbox[t][1].from = inbox[t][2].from
        /\ lastEmit.ev = "answer"

(* ----------------------------- registry claims ------------------------- *)
\* C11: the close of a connection removes its registry entry and no other,
\* so a connection that registered and then closed resolves to absent from
\* then on; the close of a connection that never registered leaves the
\* registry as it was.
C11_ForgetOnClose ==
    [][\A s \in SocketIds :
          /\ conn'[s] = "closed" => Resolve(activeSockets', s) = NULL
          /\ (conn[s] = "open" /\ conn'[s] = "closed") =>
                /\ \A k \in SocketIds \ {s} :
                       Resolve(activeSockets', k) = Resolve(activeSockets, k)
                /\ s \notin DOMAIN activeSockets
                       => activeSockets' = activeSockets]_vars

\* one connection registered and closed, another closed without ever
\* registering, and neither resolves
C11_Witness ==
    \E s, t \in SocketIds :
        /\ conn[s] = "closed" /\ s \in everRegistered
        /\ conn[t] = "closed" /\ t \notin everRegistered
        /\ Resolve(activeSockets, s) = NULL /\ Resolve(activeSockets, t) = NULL

(* ---------------------------- authorship claims ------------------------ *)
\* this step executes the INSERT of the suspended 'message' handler p
ExecutesInsert(p) ==
    /\ p \in BagToSet(msgPending)
    /\ msgPending' = msgPending (-) SetToBag({p})
    /\ msgSeq' = msgSeq + 1

\* C15: the INSERT of a message received from a connection registered with
\* u stores it with user_id = u, whatever u the connection registered with,
\* and a message is stored with a null user_id exactly when its sender had no
\* registry entry when the message was received.
C15_AuthorIsRegistrant ==
    [][\A p \in MessageInserts :
          ExecutesInsert(p) =>
              /\ p.userId # NULL =>
                     /\ Len(messages') = Len(messages) + 1
                     /\ messages'[Len(messages')].user_id = p.userId
              /\ Len(messages') = Len(messages) + 1 =>
                     (messages'[Len(messages')].user_id = NULL <=> p.userId = NULL)]_vars

(* ------------------------------ failure claims ------------------------- *)
\* this step answers a pending seat or call request with 500
HttpWriteFails ==
    /\ lastResp'.req \in Pending
    /\ httpReq' = httpReq (-) SetToBag({lastResp'.req})
    /\ lastResp'.status = 500

\* this step ends a suspended 'message' handler without a stored row
MessageWriteFails ==
    /\ \E p \in BagToSet(msgPending) : msgPending' = msgPending (-) SetToBag({p})
    /\ Len(messages') = Len(messages)

\* C18: a seat, call or message write that fails leaves the seats, calls and
\* messages tables and the registry as they were, and nothing is emitted.
C18_FailedWriteNoEffect ==
    [][(HttpWriteFails \/ MessageWriteFails) =>
          /\ seats' = seats /\ calls' = calls /\ messages' = messages
          /\ activeSockets' = activeSockets
          /\ inbox' = inbox]_vars

\* a seat update has just failed while a seat, a call, a message and a
\* registry entry are stored
C18_Witness ==
    /\ lastResp.status = 500
    /\ lastResp.req.route = "PUT /api/seats/:id"
    /\ lastResp.req.id \in DOMAIN seats
    /\ DOMAIN calls # {}
    /\ Len(messages) > 0
    /\ DOMAIN activeSockets # {}

(* ------------------------------- C19 ----------------------------------- *)
\* no Authorization header, or a token jwt.verify refuses
BadCredentials == {"missing", "invalid"}

WriteRoutes == CarRoutes \cup SeatRoutes \cup CallRoutes

\* C19: a create, update or delete request on cars, seats or calls that
\* carries no credential or an invalid one never reaches the store (no query
\* of it is ever pending), and its response is 401 with the stored cars,
\* seats and calls, and the queries in flight, left as they were.
C19_UnauthorizedRejected ==
    [][/\ \A r \in BagToSet(httpReq') :
              r.route \in WriteRoutes => r.token \notin BadCredentials
       /\ (/\ lastResp' # lastResp
           /\ lastResp'.req.route \in WriteRoutes
           /\ lastResp'.req.token \in BadCredentials)
          => /\ lastResp'.status = 401
             /\ lastResp'.outcome = "rejected"
             /\ cars' = cars /\ seats' = seats /\ calls' = calls
             /\ carSeq' = carSeq /\ seatSeq' = seatSeq /\ callSeq' = callSeq
             /\ httpReq' = httpReq]_vars

\* a request without a valid credential got its 401 while cars, seats and
\* calls were stored and a verified request was waiting for the store
C19_Witness ==
    /\ lastResp.req.route \in WriteRoutes
    /\ lastResp.req.token \in BadCredentials
    /\ lastResp.status = 401
    /\ DOMAIN cars # {} /\ DOMAIN seats # {} /\ DOMAIN calls # {}
    /\ Pending # {}

(* ------------------------------- C20 ----------------------------------- *)
\* C20: every stored call has a caller different from its receiver, and a
\* POST /api/calls naming one user as both stores no call.
C20_CallerNotReceiver ==
    \A c \in DOMAIN calls : calls[c].caller_id # calls[c].receiver_id

(* ------------------------------- C21 ----------------------------------- *)
\* the position of the broadcast of msg in box, 0 if box does not hold it
BroadcastAt(box, msg) ==
    IF \E i \in 1..Len(box) : box[i].ev = "message" /\ box[i].row.content = msg
    THEN CHOOSE i \in 1..Len(box) :
             box[i].ev = "message" /\ box[i].row.content = msg
    ELSE 0

\* C21: when a connection sent m1 and then m2, m1 is stored with the smaller
\* id and every connection that received both broadcasts received m1's
\* first, however the two pending inserts interleave.
C21_ChatArrivalOrder ==
    /\ \A i, j \in 1..Len(messages) :
           (messages[i].content = Sends[1] /\ messages[j].content = Sends[2])
               => messages[i].id < messages[j].id
    /\ \A s \in SocketIds :
           (BroadcastAt(inbox[s], Sends[1]) > 0 /\ BroadcastAt(inbox[s], Sends[2]) > 0)
               => BroadcastAt(inbox[s], Sends[1]) < BroadcastAt(inbox[s], Sends[2])

(* ------------------------------- C22 ----------------------------------- *)
\* C22: a closed connection receives nothing any more. A signaling event
\* addressed to it is delivered to nobody, the sender included, and reports
\* no error; a chat broadcast whose insert completes after the close reaches
\* the open connections only, as the stored record and nothing else; neither
\* changes the registry or closes a connection.
C22_ClosedGetsNothing ==
    [][/\ \A s \in SocketIds : conn[s] = "closed" => inbox'[s] = inbox[s]
       /\ \A ev \in SignalEvents :
              (Handles(ev) /\ conn[lastEmit'.data.to] = "closed")
                  => /\ inbox' = inbox
                     /\ lastEmit'.ok
                     /\ activeSockets' = activeSockets
                     /\ conn' = conn
       /\ (Broadcasts /\ \E s \in SocketIds : conn[s] = "closed")
              => /\ \A s \in SocketIds :
                        conn[s] = "open" =>
                            inbox'[s] = Append(inbox[s],
                                [ev |-> "message",
                                 row |-> messages'[Len(messages')]])
                 /\ activeSockets' = activeSockets
                 /\ conn' = conn]_vars

\* box holds the broadcast of the message stored with id
HoldsMessage(box, id) ==
    \E i \in 1..Len(box) : box[i].ev = "message" /\ box[i].row.id = id

\* a connection received a signaling event and the first broadcast, then
\* closed; the signaling event addressed to it afterwards reached nobody, the
\* second broadcast reached a registered open connection and not the closed
\* one
C22_Witness ==
    \E s, r \in SocketIds :
        /\ conn[s] = "closed" /\ conn[r] = "open"
        /\ r \in DOMAIN activeSockets
        /\ \E i \in 1..Len(inbox[s]) : inbox[s][i].ev \in SignalEvents
        /\ signalCount >= 2 /\ lastEmit.data.to = s /\ lastEmit.to = {}
        /\ HoldsMessage(inbox[s], 1) /\ ~HoldsMessage(inbox[s], 2)
        /\ HoldsMessage(inbox[r], 2)

(* ------------------------------- C23 ----------------------------------- *)
\* C23: every key of activeSockets is the id of an open connection, and its
\* value is the user id of the latest register on that connection, whatever
\* the order of connect, register, message, signaling and disconnect events
\* and whichever message handlers are suspended when their connection closes.
C23_RegistryOfOpen ==
    \A k \in DOMAIN activeSockets :
        /\ conn[k] = "open"
        /\ activeSockets[k] = lastRegister[k]

\* socket 1 registered as user 1 and sent a message that is stored, registered
\* again with 0 and sent a message, and closed while that handler was
\* suspended: its key is gone, and another open connection holds its entry
C23_Witness ==
    /\ conn[1] = "closed" /\ 1 \notin DOMAIN activeSockets
    /\ \E i \in 1..Len(messages) : messages[i].user_id = 1
    /\ \E p \in BagToSet(msgPending) : p.userId = 0
    /\ \E r \in DOMAIN activeSockets :
           conn[r] = "open" /\ activeSockets[r] = lastRegister[r]
====
